---- MODULE Spec2Model ----
(***************************************************************************)
(* Model of the project_sonar geometry kernel: the coordinate-system       *)
(* hierarchy (physics/coordinate_system.rs) and the polar-vector           *)
(* canonicalisation and ordering of its three lineages (Basics.rs,         *)
(* physics/polar_vector.rs in degrees, physics/vectors.rs in radians).     *)
(*                                                                         *)
(* f64 values are modelled on a grid: lengths in whole metres, angles of   *)
(* the degree lineages in ticks of 1/TicksPerDegree degree, angles of the  *)
(* radian lineage in ticks of 0.5e-6 rad (PI rounded to the grid, TAU      *)
(* twice PI as in f64).  The f64 operations the code uses (+, -, abs, %,   *)
(* rem_euclid, ==, <, >) are computed exactly on the grid; rounding of     *)
(* values off the grid and the infinities are not modelled.  NaN is a      *)
(* value of its own: the operations that can meet it propagate it and      *)
(* compare it unequal to everything.  sqrt, atan2, acos, cos and sin are   *)
(* modelled on the inputs the conversions are run with: vectors along an   *)
(* axis and angles at multiples of a quarter turn.                         *)
(***************************************************************************)
EXTENDS Integers, Sequences, FiniteSets

VARIABLES frames, vecs, last

vars == <<frames, vecs, last>>

(***************************************************************************)
(* Bounds of the model.                                                    *)
(***************************************************************************)
MaxFrames == 4
TicksPerDegree == 2
MaxTurns == 1

(***************************************************************************)
(* Cartesian vectors (physics/vectors.rs).                                 *)
(***************************************************************************)
Vector_new(x, y, z) == [x |-> x, y |-> y, z |-> z]

WORLD_ORIGIN == <<0, 0, 0>>

Vector_get_world_origin == Vector_new(WORLD_ORIGIN[1], WORLD_ORIGIN[2], WORLD_ORIGIN[3])

Vector_add(a, b) == [x |-> a.x + b.x, y |-> a.y + b.y, z |-> a.z + b.z]

(***************************************************************************)
(* Coordinate systems (physics/coordinate_system.rs).  A frame is a record *)
(* of the sequence frames; a reference &T to a frame is its index.  The    *)
(* parent of a GeneralCoordSystem is the index of a frame constructed      *)
(* before it; a WorldCoordSystem has no parent field (parent 0).           *)
(***************************************************************************)
None == 0

Ids == {"gcs", "a"}

Origins == {Vector_new(10, 0, 0), Vector_new(0, 5, 0)}

VecIn == {Vector_new(1, 0, 0), Vector_new(0, 0, 2), Vector_new(0, 0, 0)}

\* Variant: the root is constructed with another id.
WorldCoordSystem_new_other_id ==
    [kind |-> "World", id |-> "world", origin |-> Vector_get_world_origin, parent |-> None]

WorldCoordSystem_new == [kind |-> "World", id |-> "wcs", origin |-> Vector_get_world_origin, parent |-> None]

GeneralCoordSystem_new(id, parent_coord_system, origin) ==
    [kind |-> "General", id |-> id, origin |-> origin, parent |-> parent_coord_system]

get_id(f) == frames[f].id

get_origin(f) == frames[f].origin

\* Variant: a GeneralCoordSystem reports no parent either.
get_parent_coord_system_none(f) == None

\* None for both WorldCoordSystem impls, Some(parent) for a GeneralCoordSystem.
get_parent_coord_system(f) ==
    IF frames[f].kind = "World" THEN None ELSE frames[f].parent

\* impl CoordinateSystem for WorldCoordSystem
WorldCoordSystem_transform_vector_into_world_coords(f, vec) == vec

\* Variant: the root hands back its own origin instead of the vector.
RefWorldCoordSystem_transform_returns_origin(f, vec) == frames[f].origin

\* impl CoordinateSystem for &WorldCoordSystem
RefWorldCoordSystem_transform_vector_into_world_coords(f, vec) == vec

\* Variant: the origin is subtracted from the vector instead of added.
transform_vector_into_parent_coords_sub(f, vec) ==
    LET x == vec.x - frames[f].origin.x
        y == vec.y - frames[f].origin.y
        z == vec.z - frames[f].origin.z
    IN  Vector_new(x, y, z)

transform_vector_into_parent_coords(f, vec) ==
    LET x == frames[f].origin.x + vec.x
        y == frames[f].origin.y + vec.y
        z == frames[f].origin.z + vec.z
    IN  Vector_new(x, y, z)

\* x is the parent of the parent: the call goes through the bound
\* T::CoSys: CoordinateSystem, to the impl of the grandparent's own type.
RECURSIVE GeneralCoordSystem_transform_vector_into_world_coords(_, _)
GeneralCoordSystem_transform_vector_into_world_coords(f, vec) ==
    LET temp_vec == transform_vector_into_parent_coords(f, vec)
        x == get_parent_coord_system(frames[f].parent)
    IN  IF x = None
        THEN temp_vec
        ELSE IF frames[x].kind = "World"
             THEN WorldCoordSystem_transform_vector_into_world_coords(x, temp_vec)
             ELSE GeneralCoordSystem_transform_vector_into_world_coords(x, temp_vec)

\* Variant: the parent is asked as well as the grandparent.
RECURSIVE GeneralCoordSystem_transform_invocations_both(_)
GeneralCoordSystem_transform_invocations_both(f) ==
    LET p == frames[f].parent
        x == get_parent_coord_system(p)
    IN  1 + (IF frames[p].kind = "World" THEN 1
             ELSE GeneralCoordSystem_transform_invocations_both(p))
          + (IF x = None THEN 0
             ELSE IF frames[x].kind = "World" THEN 1
             ELSE GeneralCoordSystem_transform_invocations_both(x))

\* The number of transform_vector_into_world_coords invocations one call on the
\* frame f makes, itself included.
RECURSIVE GeneralCoordSystem_transform_invocations(_)
GeneralCoordSystem_transform_invocations(f) ==
    LET x == get_parent_coord_system(frames[f].parent)
    IN  IF x = None THEN 1
        ELSE IF frames[x].kind = "World" THEN 1 + 1
        ELSE 1 + GeneralCoordSystem_transform_invocations(x)

(***************************************************************************)
(* f64 helpers on the grid.  rem_euclid is the Euclidean remainder (never  *)
(* negative for a positive divisor); the f64 operator % is the truncated   *)
(* remainder, which takes the sign of the dividend.                        *)
(***************************************************************************)
\* f64::NAN, the result of 0.0 / 0.0; no other value of the model equals it.
NaN == -2147483647

rem_euclid(a, b) == a % b

f64_rem(a, b) == IF a >= 0 THEN a % b ELSE -((-a) % b)

abs(a) == IF a < 0 THEN -a ELSE a

Deg(d) == d * TicksPerDegree

DEG_360 == Deg(360)

DEG_180 == Deg(180)

\* std::f64::consts::PI and TAU in ticks of 0.5e-6 rad.
PI == 6283185

TAU == 2 * PI

FRAC_PI_2 == PI \div 2

FRAC_PI_4 == PI \div 4

FRAC_PI_8 == PI \div 8

\* Constants.rs: 0.000001 rad, in ticks of 0.5e-6 rad.
F64_DELTA == 2

(***************************************************************************)
(* PolarVec of physics/polar_vector.rs (degrees).                          *)
(***************************************************************************)
\* Variant: the angles are wrapped with the truncated remainder % instead of
\* rem_euclid, so that negative angles stay negative.
PolarVec_get_uni_coords_truncated(r0, phi0, theta0) ==
    LET phi1 == IF phi0 < 0 \/ phi0 >= DEG_360 THEN f64_rem(phi0, DEG_360) ELSE phi0
        theta1 == IF theta0 < 0 \/ theta0 >= DEG_180 THEN f64_rem(theta0, DEG_180) ELSE theta0
        phi2 == IF r0 = 0 THEN 0
                ELSE IF theta1 = 0 \/ theta1 = DEG_180 THEN 0 ELSE phi1
        theta2 == IF r0 = 0 THEN 0 ELSE theta1
        r3 == IF r0 < 0 THEN abs(r0) ELSE r0
        phi3 == IF r0 < 0 THEN f64_rem(phi2 + DEG_180, DEG_360) ELSE phi2
        theta3 == IF r0 < 0 THEN DEG_180 - theta2 ELSE theta2
    IN  <<r3, phi3, theta3>>

\* Variant: the test r == 0 is missing, only the pole test remains.
PolarVec_get_uni_coords_no_zero_test(r0, phi0, theta0) ==
    LET phi1 == IF phi0 < 0 \/ phi0 >= DEG_360 THEN rem_euclid(phi0, DEG_360) ELSE phi0
        theta1 == IF theta0 < 0 \/ theta0 >= DEG_180 THEN rem_euclid(theta0, DEG_180) ELSE theta0
        phi2 == IF theta1 = 0 \/ theta1 = DEG_180 THEN 0 ELSE phi1
        r3 == IF r0 < 0 THEN abs(r0) ELSE r0
        phi3 == IF r0 < 0 THEN f64_rem(phi2 + DEG_180, DEG_360) ELSE phi2
        theta3 == IF r0 < 0 THEN DEG_180 - theta1 ELSE theta1
    IN  <<r3, phi3, theta3>>

PolarVec_get_uni_coords(r0, phi0, theta0) ==
    LET phi1 == IF phi0 < 0 \/ phi0 >= DEG_360 THEN rem_euclid(phi0, DEG_360) ELSE phi0
        theta1 == IF theta0 < 0 \/ theta0 >= DEG_180 THEN rem_euclid(theta0, DEG_180) ELSE theta0
        phi2 == IF r0 = 0 THEN 0
                ELSE IF theta1 = 0 \/ theta1 = DEG_180 THEN 0 ELSE phi1
        theta2 == IF r0 = 0 THEN 0 ELSE theta1
        r3 == IF r0 < 0 THEN abs(r0) ELSE r0
        phi3 == IF r0 < 0 THEN f64_rem(phi2 + DEG_180, DEG_360) ELSE phi2
        theta3 == IF r0 < 0 THEN DEG_180 - theta2 ELSE theta2
    IN  <<r3, phi3, theta3>>

PolarVec_new(r, phi, theta) ==
    LET c == PolarVec_get_uni_coords(r, phi, theta)
    IN  [ty |-> "PolarVec", r |-> c[1], phi |-> c[2], theta |-> c[3]]

\* Variant: the difference is reduced to the shortest arc.
PolarVec_get_angle_difference_phi_shortest(self, other) ==
    LET d == other.phi - self.phi
    IN  IF d > DEG_180 THEN d - DEG_360 ELSE IF d < 0 - DEG_180 THEN d + DEG_360 ELSE d

PolarVec_get_angle_difference_phi(self, other) == other.phi - self.phi

PolarVec_get_angle_difference_theta(self, other) == other.theta - self.theta

PolarVec_get_world_origin ==
    PolarVec_new(WORLD_ORIGIN[1], WORLD_ORIGIN[2], WORLD_ORIGIN[3])

\* #[derive(PartialEq)]: exact comparison of the three fields.
PolarVec_eq(a, b) == a.r = b.r /\ a.phi = b.phi /\ a.theta = b.theta

\* Variant: the radius is compared first, then phi, then theta.
PolarVec_cmp_radius_first(a, b) ==
    IF PolarVec_eq(a, b) THEN "Equal"
    ELSE IF a.r # b.r THEN (IF a.r > b.r THEN "Greater" ELSE "Less")
    ELSE IF a.phi # b.phi THEN (IF a.phi > b.phi THEN "Greater" ELSE "Less")
    ELSE (IF a.theta > b.theta THEN "Greater" ELSE "Less")

PolarVec_cmp(a, b) ==
    IF PolarVec_eq(a, b) THEN "Equal"
    ELSE IF a.phi # b.phi THEN (IF a.phi > b.phi THEN "Greater" ELSE "Less")
    ELSE IF a.theta # b.theta THEN (IF a.theta > b.theta THEN "Greater" ELSE "Less")
    ELSE (IF a.r > b.r THEN "Greater" ELSE "Less")

PolarVec_partial_cmp(a, b) == <<"Some", PolarVec_cmp(a, b)>>

(***************************************************************************)
(* PoleVec of Basics.rs (degrees): the zero and pole tests come before the *)
(* wrap, and the wrap is skipped when one of them matched.                 *)
(***************************************************************************)
PoleVec_get_uni_coords(r0, phi0, theta0) ==
    LET wrap == ~(r0 = 0) /\ ~(theta0 = 0 \/ theta0 = DEG_180)
        phi1 == IF r0 = 0 THEN 0
                ELSE IF theta0 = 0 \/ theta0 = DEG_180 THEN 0
                ELSE IF phi0 < 0 \/ phi0 >= DEG_360 THEN rem_euclid(phi0, DEG_360) ELSE phi0
        theta1 == IF r0 = 0 THEN 0
                  ELSE IF wrap /\ (theta0 < 0 \/ theta0 >= DEG_180)
                       THEN rem_euclid(theta0, DEG_180) ELSE theta0
        r2 == IF r0 < 0 THEN abs(r0) ELSE r0
        pre_phi == DEG_180 + phi1
        phi2 == IF r0 < 0 THEN rem_euclid(pre_phi, DEG_360) ELSE phi1
        theta2 == IF r0 < 0 THEN DEG_180 - theta1 ELSE theta1
    IN  <<r2, phi2, theta2>>

PoleVec_new(r, phi, theta) ==
    LET c == PoleVec_get_uni_coords(r, phi, theta)
    IN  [ty |-> "PoleVec", r |-> c[1], phi |-> c[2], theta |-> c[3]]

PoleVec_eq(a, b) == a.r = b.r /\ a.phi = b.phi /\ a.theta = b.theta

\* std::ptr::eq: two pointers are equal when they hold the same address.
ptr_eq(a, b) == a = b

\* ne hands std::ptr::eq the addresses of its own two parameters, the locals
\* self and other, which are two objects whatever vectors they refer to.
PoleVec_ne(self, other) ==
    LET addr_of_self == "&self"
        addr_of_other == "&other"
    IN  ~ptr_eq(addr_of_self, addr_of_other)

PoleVec_cmp(a, b) ==
    IF PoleVec_eq(a, b) THEN "Equal"
    ELSE IF a.phi # b.phi THEN (IF a.phi > b.phi THEN "Greater" ELSE "Less")
    ELSE IF a.theta # b.theta THEN (IF a.theta > b.theta THEN "Greater" ELSE "Less")
    ELSE (IF a.r > b.r THEN "Greater" ELSE "Less")

PoleVec_partial_cmp(a, b) == <<"Some", PoleVec_cmp(a, b)>>

(***************************************************************************)
(* PolarVec of physics/vectors.rs (radians, tolerant equality).            *)
(***************************************************************************)
RadPolarVec_get_uni_coords(r0, phi0, theta0) ==
    LET phi1 == IF phi0 < 0 \/ phi0 >= TAU THEN rem_euclid(phi0, TAU) ELSE phi0
        theta1 == IF theta0 < 0 \/ theta0 >= PI THEN rem_euclid(theta0, PI) ELSE theta0
        phi2 == IF r0 = 0 THEN 0
                ELSE IF theta1 = 0 \/ theta1 = PI THEN 0 ELSE phi1
        theta2 == IF r0 = 0 THEN 0 ELSE theta1
        r3 == IF r0 < 0 THEN abs(r0) ELSE r0
        phi3 == IF r0 < 0 THEN f64_rem(phi2 + PI, TAU) ELSE phi2
        theta3 == IF r0 < 0 THEN PI - theta2 ELSE theta2
    IN  <<r3, phi3, theta3>>

RadPolarVec_new(r, phi, theta) ==
    LET c == RadPolarVec_get_uni_coords(r, phi, theta)
    IN  [ty |-> "RadPolarVec", r |-> c[1], phi |-> c[2], theta |-> c[3]]

\* utils::helper_functions::equal_with_delta: |a - b| <= F64_DELTA (false on NaN).
equal_with_delta(a, b) == a # NaN /\ b # NaN /\ abs(a - b) <= F64_DELTA

RadPolarVec_eq(a, b) ==
    (a.r = b.r) /\ equal_with_delta(a.phi, b.phi) /\ equal_with_delta(a.theta, b.theta)

RadPolarVec_get_world_origin == RadPolarVec_new(WORLD_ORIGIN[1], WORLD_ORIGIN[2], WORLD_ORIGIN[3])

(***************************************************************************)
(* f64 functions of the conversions between Vector and PolarVec.           *)
(***************************************************************************)
f64_mul(a, b) == IF a = NaN \/ b = NaN THEN NaN ELSE a * b

\* 0.0 / 0.0 is NaN; the quotients met here are -1, 0 and 1.
f64_div(a, b) == IF a = NaN \/ b = NaN \/ (a = 0 /\ b = 0) THEN NaN ELSE a \div b

f64_sqrt(n) == IF n = NaN THEN NaN ELSE CHOOSE s \in 0..n : s * s <= n /\ (s + 1) * (s + 1) > n

\* y.atan2(x) for a point on an axis of the plane; atan2(0, 0) is 0.
f64_atan2(y, x) ==
    IF y = 0 THEN (IF x >= 0 THEN 0 ELSE PI)
    ELSE IF y > 0 THEN FRAC_PI_2 ELSE 0 - FRAC_PI_2

f64_acos(c) ==
    IF c = NaN THEN NaN ELSE IF c >= 1 THEN 0 ELSE IF c = 0 THEN FRAC_PI_2 ELSE PI

\* The quarter turn nearest to the angle a, modulo a full turn.
Quarter(a) == ((2 * a + FRAC_PI_2) \div PI) % 4

f64_cos(a) == IF a = NaN THEN NaN ELSE <<1, 0, -1, 0>>[Quarter(a) + 1]

f64_sin(a) == IF a = NaN THEN NaN ELSE <<0, 1, 0, -1>>[Quarter(a) + 1]

Vector_to_polar_vector(v) ==
    LET r == f64_sqrt(v.x * v.x + v.y * v.y + v.z * v.z)
    IN  [ty |-> "RadPolarVec", r |-> r, phi |-> f64_atan2(v.y, v.x),
         theta |-> f64_acos(f64_div(v.z, r))]

RadPolarVec_to_vector(p) ==
    [x |-> f64_mul(f64_mul(p.r, f64_cos(p.phi)), f64_sin(p.theta)),
     y |-> f64_mul(f64_mul(p.r, f64_sin(p.phi)), f64_sin(p.theta)),
     z |-> f64_mul(p.r, f64_cos(p.theta))]

RadPolarVec_cmp(a, b) ==
    IF RadPolarVec_eq(a, b) THEN "Equal"
    ELSE IF a.phi # b.phi THEN (IF a.phi > b.phi THEN "Greater" ELSE "Less")
    ELSE IF a.theta # b.theta THEN (IF a.theta > b.theta THEN "Greater" ELSE "Less")
    ELSE (IF a.r > b.r THEN "Greater" ELSE "Less")

RadPolarVec_partial_cmp(a, b) == <<"Some", RadPolarVec_cmp(a, b)>>

(***************************************************************************)
(* Operations on the frame hierarchy.                                      *)
(***************************************************************************)
\* The polar vectors the program holds: three named local values.
Slots == {"a", "b", "c"}

NoCall == [op |-> "none", ty |-> "none", self |-> "none", arg |-> "none", out |-> "none"]

NewWorld ==
    /\ Len(frames) < MaxFrames
    /\ frames' = Append(frames, WorldCoordSystem_new)
    /\ last' = [op |-> "new", ty |-> "WorldCoordSystem", self |-> Len(frames) + 1,
                arg |-> "none", out |-> "none"]
    /\ UNCHANGED vecs

NewGeneral ==
    /\ Len(frames) < MaxFrames
    /\ \E id \in Ids, p \in 1..Len(frames), origin \in Origins :
          /\ frames' = Append(frames, GeneralCoordSystem_new(id, p, origin))
          /\ last' = [op |-> "new", ty |-> "GeneralCoordSystem", self |-> Len(frames) + 1,
                      arg |-> p, out |-> "none"]
    /\ UNCHANGED vecs

TransformWorld ==
    /\ \E f \in 1..Len(frames), vec \in VecIn :
          /\ frames[f].kind = "World"
          /\ last' = [op |-> "transform", ty |-> "WorldCoordSystem", self |-> f, arg |-> vec,
                      out |-> WorldCoordSystem_transform_vector_into_world_coords(f, vec)]
    /\ UNCHANGED <<frames, vecs>>

TransformRefWorld ==
    /\ \E f \in 1..Len(frames), vec \in VecIn :
          /\ frames[f].kind = "World"
          /\ last' = [op |-> "transform", ty |-> "&WorldCoordSystem", self |-> f, arg |-> vec,
                      out |-> RefWorldCoordSystem_transform_vector_into_world_coords(f, vec)]
    /\ UNCHANGED <<frames, vecs>>

TransformGeneral ==
    /\ \E f \in 1..Len(frames), vec \in VecIn :
          /\ frames[f].kind = "General"
          /\ last' = [op |-> "transform", ty |-> "GeneralCoordSystem", self |-> f, arg |-> vec,
                      out |-> GeneralCoordSystem_transform_vector_into_world_coords(f, vec)]
    /\ UNCHANGED <<frames, vecs>>

Init ==
    /\ frames = <<>>
    /\ vecs = [s \in Slots |-> PolarVec_get_world_origin]
    /\ last = NoCall

Next ==
    \/ NewWorld
    \/ NewGeneral
    \/ TransformWorld
    \/ TransformRefWorld
    \/ TransformGeneral

Spec == Init /\ [][Next]_vars

(***************************************************************************)
(* Construction of polar vectors.  Inputs of the canonicalisation runs:    *)
(* radii of both signs and zero, angles in and out of range by up to       *)
(* MaxTurns full periods, among them the values of the unit tests.         *)
(***************************************************************************)
Turns == (0 - MaxTurns)..MaxTurns

RIn == {-5, -1, 0, 1, 5}

PhiBase == {Deg(0), Deg(1), Deg(20), Deg(180), Deg(200), Deg(717) \div 2}

ThetaBase == {Deg(0), Deg(1), Deg(45), Deg(90), Deg(135), Deg(179)}

PhiIn == {p + k * DEG_360 : p \in PhiBase, k \in Turns}

ThetaIn == {t + m * DEG_180 : t \in ThetaBase, m \in Turns}

RadPhiBase == {0, FRAC_PI_8, PI, PI + FRAC_PI_8, TAU - 3}

RadThetaBase == {0, FRAC_PI_8, FRAC_PI_4, FRAC_PI_2, FRAC_PI_2 + FRAC_PI_4, PI - 1}

RadPhiIn == {p + k * TAU : p \in RadPhiBase, k \in Turns}

RadThetaIn == {t + m * PI : t \in RadThetaBase, m \in Turns}

\* Inputs of the ordering runs: already in range, close to each other.
ROrd == {0, 1, 2}

PhiOrd == {Deg(1), Deg(2)}

ThetaOrd == {Deg(1), Deg(2)}

RadROrd == {1, 2}

RadPhiOrd == {FRAC_PI_8, FRAC_PI_8 + F64_DELTA, FRAC_PI_8 + 2 * F64_DELTA}

RadThetaOrd == {FRAC_PI_4, FRAC_PI_4 + F64_DELTA}

\* A call of new that has been issued and not yet run.
Call(ty, r, phi, theta) ==
    [op |-> "call_new", ty |-> ty, self |-> "a", arg |-> <<r, phi, theta>>, out |-> 0]

InitPolar ==
    /\ frames = <<>>
    /\ vecs = [s \in Slots |-> PolarVec_get_world_origin]
    /\ \/ \E r \in RIn, phi \in PhiIn, theta \in ThetaIn :
             last \in {Call("PolarVec", r, phi, theta), Call("PoleVec", r, phi, theta)}
       \/ \E r \in RIn, phi \in RadPhiIn, theta \in RadThetaIn :
             last = Call("RadPolarVec", r, phi, theta)

PolarVecNew ==
    /\ last.op = "call_new" /\ last.ty = "PolarVec"
    /\ LET v == PolarVec_new(last.arg[1], last.arg[2], last.arg[3])
       IN  /\ vecs' = [vecs EXCEPT ![last.self] = v]
           /\ last' = [last EXCEPT !.op = "new", !.out = v]
    /\ UNCHANGED frames

PoleVecNew ==
    /\ last.op = "call_new" /\ last.ty = "PoleVec"
    /\ LET v == PoleVec_new(last.arg[1], last.arg[2], last.arg[3])
       IN  /\ vecs' = [vecs EXCEPT ![last.self] = v]
           /\ last' = [last EXCEPT !.op = "new", !.out = v]
    /\ UNCHANGED frames

RadPolarVecNew ==
    /\ last.op = "call_new" /\ last.ty = "RadPolarVec"
    /\ LET v == RadPolarVec_new(last.arg[1], last.arg[2], last.arg[3])
       IN  /\ vecs' = [vecs EXCEPT ![last.self] = v]
           /\ last' = [last EXCEPT !.op = "new", !.out = v]
    /\ UNCHANGED frames

NextPolar ==
    \/ PolarVecNew
    \/ PoleVecNew
    \/ RadPolarVecNew

SpecPolar == InitPolar /\ [][NextPolar]_vars

(***************************************************************************)
(* Comparison of two held polar vectors of the same type.                  *)
(***************************************************************************)
PolarVecCmp(s, t) ==
    /\ vecs[s].ty = "PolarVec" /\ vecs[t].ty = "PolarVec"
    /\ last' = [op |-> "cmp", ty |-> "PolarVec", self |-> s, arg |-> t,
                out |-> PolarVec_cmp(vecs[s], vecs[t])]
    /\ UNCHANGED <<frames, vecs>>

PolarVecPartialCmp(s, t) ==
    /\ vecs[s].ty = "PolarVec" /\ vecs[t].ty = "PolarVec"
    /\ last' = [op |-> "partial_cmp", ty |-> "PolarVec", self |-> s, arg |-> t,
                out |-> PolarVec_partial_cmp(vecs[s], vecs[t])]
    /\ UNCHANGED <<frames, vecs>>

PoleVecCmp(s, t) ==
    /\ vecs[s].ty = "PoleVec" /\ vecs[t].ty = "PoleVec"
    /\ last' = [op |-> "cmp", ty |-> "PoleVec", self |-> s, arg |-> t,
                out |-> PoleVec_cmp(vecs[s], vecs[t])]
    /\ UNCHANGED <<frames, vecs>>

PoleVecPartialCmp(s, t) ==
    /\ vecs[s].ty = "PoleVec" /\ vecs[t].ty = "PoleVec"
    /\ last' = [op |-> "partial_cmp", ty |-> "PoleVec", self |-> s, arg |-> t,
                out |-> PoleVec_partial_cmp(vecs[s], vecs[t])]
    /\ UNCHANGED <<frames, vecs>>

RadPolarVecCmp(s, t) ==
    /\ vecs[s].ty = "RadPolarVec" /\ vecs[t].ty = "RadPolarVec"
    /\ last' = [op |-> "cmp", ty |-> "RadPolarVec", self |-> s, arg |-> t,
                out |-> RadPolarVec_cmp(vecs[s], vecs[t])]
    /\ UNCHANGED <<frames, vecs>>

RadPolarVecPartialCmp(s, t) ==
    /\ vecs[s].ty = "RadPolarVec" /\ vecs[t].ty = "RadPolarVec"
    /\ last' = [op |-> "partial_cmp", ty |-> "RadPolarVec", self |-> s, arg |-> t,
                out |-> RadPolarVec_partial_cmp(vecs[s], vecs[t])]
    /\ UNCHANGED <<frames, vecs>>

\* The held vectors are values new has returned, all of one type.
InitOrd ==
    /\ frames = <<>>
    /\ last = NoCall
    /\ \/ vecs \in [Slots -> {PolarVec_new(r, phi, theta) :
                                 r \in ROrd, phi \in PhiOrd, theta \in ThetaOrd}]
       \/ vecs \in [Slots -> {PoleVec_new(r, phi, theta) :
                                 r \in ROrd, phi \in PhiOrd, theta \in ThetaOrd}]
       \/ vecs \in [Slots -> {RadPolarVec_new(r, phi, theta) :
                                 r \in RadROrd, phi \in RadPhiOrd, theta \in RadThetaOrd}]

NextOrd ==
    \/ \E s, t \in Slots : PolarVecCmp(s, t)
    \/ \E s, t \in Slots : PolarVecPartialCmp(s, t)
    \/ \E s, t \in Slots : PoleVecCmp(s, t)
    \/ \E s, t \in Slots : PoleVecPartialCmp(s, t)
    \/ \E s, t \in Slots : RadPolarVecCmp(s, t)
    \/ \E s, t \in Slots : RadPolarVecPartialCmp(s, t)

SpecOrd == InitOrd /\ [][NextOrd]_vars

(***************************************************************************)
(* Derived equality of the frames and the vector points                    *)
(* (physics/vector_points.rs).  A reference field is compared through the  *)
(* reference, by the value it points to.                                   *)
(***************************************************************************)
\* #[derive(PartialEq)] for Vector: exact comparison of x, y and z.
Vector_eq(a, b) == a.x = b.x /\ a.y = b.y /\ a.z = b.z

\* The Rust type of a frame: WorldCoordSystem is 0, GeneralCoordSystem<T> is
\* one more than T.
RECURSIVE FrameType(_)
FrameType(f) == IF frames[f].kind = "World" THEN 0 ELSE 1 + FrameType(frames[f].parent)

\* #[derive(PartialEq)] for WorldCoordSystem: id, origin.
WorldCoordSystem_eq(f, g) ==
    frames[f].id = frames[g].id /\ Vector_eq(frames[f].origin, frames[g].origin)

\* #[derive(PartialEq)] for GeneralCoordSystem<T>: id, parent_coord_system, origin.
RECURSIVE GeneralCoordSystem_eq(_, _)
GeneralCoordSystem_eq(f, g) ==
    /\ frames[f].id = frames[g].id
    /\ IF frames[frames[f].parent].kind = "World"
       THEN WorldCoordSystem_eq(frames[f].parent, frames[g].parent)
       ELSE GeneralCoordSystem_eq(frames[f].parent, frames[g].parent)
    /\ Vector_eq(frames[f].origin, frames[g].origin)

CoordinateSystem_eq(f, g) ==
    IF frames[f].kind = "World" THEN WorldCoordSystem_eq(f, g) ELSE GeneralCoordSystem_eq(f, g)

VectorPoint_new(cord_sys, vector) == [cord_sys |-> cord_sys, vector |-> vector]

PolarVectorPoint_new(cord_sys, vector) == [cord_sys |-> cord_sys, vector |-> vector]

\* Variant: only the vectors are compared, the frames are ignored.
VectorPoint_eq_vector_only(p, q) == Vector_eq(p.vector, q.vector)

\* #[derive(PartialEq)] for VectorPoint: cord_sys, vector.
VectorPoint_eq(p, q) ==
    CoordinateSystem_eq(p.cord_sys, q.cord_sys) /\ Vector_eq(p.vector, q.vector)

\* #[derive(PartialEq)] for PolarVectorPoint: cord_sys, vector (PolarVec of vectors.rs).
PolarVectorPoint_eq(p, q) ==
    CoordinateSystem_eq(p.cord_sys, q.cord_sys) /\ RadPolarVec_eq(p.vector, q.vector)

PointVecIn == {Vector_new(1, 0, 0), Vector_new(0, 0, 2)}

PointPolarIn ==
    {RadPolarVec_new(10, PI, FRAC_PI_2), RadPolarVec_new(10, PI + F64_DELTA, FRAC_PI_2),
     RadPolarVec_new(2, FRAC_PI_8, FRAC_PI_4)}

\* A run builds frames and ends with one comparison of two points.
Building == last.op \in {"none", "new"}

VectorPointEq ==
    /\ \E f \in 1..Len(frames), g \in 1..Len(frames), v \in PointVecIn, w \in PointVecIn :
          /\ FrameType(f) = FrameType(g)
          /\ last' = [op |-> "eq", ty |-> "VectorPoint",
                      self |-> VectorPoint_new(f, v), arg |-> VectorPoint_new(g, w),
                      out |-> VectorPoint_eq(VectorPoint_new(f, v), VectorPoint_new(g, w))]
    /\ UNCHANGED <<frames, vecs>>

PolarVectorPointEq ==
    /\ \E f \in 1..Len(frames), g \in 1..Len(frames), v \in PointPolarIn, w \in PointPolarIn :
          /\ FrameType(f) = FrameType(g)
          /\ last' = [op |-> "eq", ty |-> "PolarVectorPoint",
                      self |-> PolarVectorPoint_new(f, v), arg |-> PolarVectorPoint_new(g, w),
                      out |-> PolarVectorPoint_eq(PolarVectorPoint_new(f, v),
                                                  PolarVectorPoint_new(g, w))]
    /\ UNCHANGED <<frames, vecs>>

NextPoint ==
    \/ Building /\ NewWorld
    \/ Building /\ NewGeneral
    \/ Building /\ VectorPointEq
    \/ Building /\ PolarVectorPointEq

SpecPoint == Init /\ [][NextPoint]_vars

(***************************************************************************)
(* Angle differences of two held PolarVec values (polar_vector.rs).        *)
(***************************************************************************)
DiffPhiIn == {Deg(0), Deg(20), Deg(40), Deg(350), Deg(719) \div 2}

DiffThetaIn == {Deg(10), Deg(160)}

InitDiff ==
    /\ frames = <<>>
    /\ last = NoCall
    /\ \E a \in {PolarVec_new(r, phi, theta) : r \in {1, -1}, phi \in DiffPhiIn, theta \in DiffThetaIn},
          b \in {PolarVec_new(r, phi, theta) : r \in {1, -1}, phi \in DiffPhiIn, theta \in DiffThetaIn} :
          vecs = [s \in Slots |-> IF s = "a" THEN a ELSE IF s = "b" THEN b
                                  ELSE PolarVec_get_world_origin]

PolarVecAngleDifferencePhi(s, t) ==
    /\ last' = [op |-> "get_angle_difference_phi", ty |-> "PolarVec", self |-> s, arg |-> t,
                out |-> PolarVec_get_angle_difference_phi(vecs[s], vecs[t])]
    /\ UNCHANGED <<frames, vecs>>

PolarVecAngleDifferenceTheta(s, t) ==
    /\ last' = [op |-> "get_angle_difference_theta", ty |-> "PolarVec", self |-> s, arg |-> t,
                out |-> PolarVec_get_angle_difference_theta(vecs[s], vecs[t])]
    /\ UNCHANGED <<frames, vecs>>

NextDiff ==
    \/ \E s, t \in {"a", "b"} : PolarVecAngleDifferencePhi(s, t)
    \/ \E s, t \in {"a", "b"} : PolarVecAngleDifferenceTheta(s, t)

SpecDiff == InitDiff /\ [][NextDiff]_vars

(***************************************************************************)
(* Conversions between Vector and PolarVec (vectors.rs): a run converts    *)
(* its input there and back.                                               *)
(***************************************************************************)
ConvLen == {1, 2, 5, 10}

ConvVecIn ==
    {Vector_get_world_origin}
        \cup {Vector_new(s * n, 0, 0) : s \in {1, -1}, n \in ConvLen}
        \cup {Vector_new(0, s * n, 0) : s \in {1, -1}, n \in ConvLen}
        \cup {Vector_new(0, 0, s * n) : s \in {1, -1}, n \in ConvLen}

ConvPolarIn ==
    {RadPolarVec_new(r, phi, theta) :
        r \in {0} \cup ConvLen,
        phi \in {0, FRAC_PI_2, PI, PI + FRAC_PI_2},
        theta \in {0, FRAC_PI_2}}

InitConv ==
    /\ frames = <<>>
    /\ vecs = [s \in Slots |-> PolarVec_get_world_origin]
    /\ \/ \E v \in ConvVecIn :
             last = [op |-> "call", ty |-> "Vector", self |-> v, arg |-> <<"Vector", v>>,
                     out |-> "none"]
       \/ \E p \in ConvPolarIn :
             last = [op |-> "call", ty |-> "RadPolarVec", self |-> p,
                     arg |-> <<"RadPolarVec", p>>, out |-> "none"]

\* The receiver of the next conversion: the input, then the first result.
Receiver == IF last.op = "call" THEN last.self ELSE last.out

VectorToPolarVector ==
    /\ \/ last.op = "call" /\ last.ty = "Vector"
       \/ last.op = "to_vector" /\ last.arg[1] = "RadPolarVec"
    /\ last' = [op |-> "to_polar_vector", ty |-> "Vector", self |-> Receiver, arg |-> last.arg,
                out |-> Vector_to_polar_vector(Receiver)]
    /\ UNCHANGED <<frames, vecs>>

PolarVecToVector ==
    /\ \/ last.op = "call" /\ last.ty = "RadPolarVec"
       \/ last.op = "to_polar_vector" /\ last.arg[1] = "Vector"
    /\ last' = [op |-> "to_vector", ty |-> "RadPolarVec", self |-> Receiver, arg |-> last.arg,
                out |-> RadPolarVec_to_vector(Receiver)]
    /\ UNCHANGED <<frames, vecs>>

NextConv == VectorToPolarVector \/ PolarVecToVector

SpecConv == InitConv /\ [][NextConv]_vars

(***************************************************************************)
(* Ordering of cartesian vectors (vectors.rs, polar_vector.rs).            *)
(***************************************************************************)
\* Variant: the y components are not compared.
Vector_cmp_skips_y(self, other) ==
    IF Vector_eq(self, other) THEN "Equal"
    ELSE IF self.x # other.x THEN (IF self.x > other.x THEN "Greater" ELSE "Less")
    ELSE (IF self.z > other.z THEN "Greater" ELSE "Less")

Vector_cmp(self, other) ==
    IF Vector_eq(self, other) THEN "Equal"
    ELSE IF self.x # other.x THEN (IF self.x > other.x THEN "Greater" ELSE "Less")
    ELSE IF self.y # other.y THEN (IF self.y > other.y THEN "Greater" ELSE "Less")
    ELSE (IF self.z > other.z THEN "Greater" ELSE "Less")

\* f64::partial_cmp of two numbers.
f64_partial_cmp(a, b) ==
    IF a = NaN \/ b = NaN THEN <<"None">>
    ELSE IF a < b THEN <<"Some", "Less">>
    ELSE IF a > b THEN <<"Some", "Greater">>
    ELSE <<"Some", "Equal">>

\* #[derive(PartialOrd)]: the first field that does not compare Equal decides.
Vector_partial_cmp(self, other) ==
    IF f64_partial_cmp(self.x, other.x) # <<"Some", "Equal">>
    THEN f64_partial_cmp(self.x, other.x)
    ELSE IF f64_partial_cmp(self.y, other.y) # <<"Some", "Equal">>
         THEN f64_partial_cmp(self.y, other.y)
         ELSE f64_partial_cmp(self.z, other.z)

CoordIn == {-1, 0, 1}

VecOrdIn == {Vector_new(x, y, z) : x \in CoordIn, y \in CoordIn, z \in CoordIn}

InitVecOrd ==
    /\ frames = <<>>
    /\ last = NoCall
    /\ \E a \in VecOrdIn, b \in VecOrdIn :
          vecs = [s \in Slots |-> IF s = "a" THEN a ELSE IF s = "b" THEN b
                                  ELSE Vector_get_world_origin]

VectorCmp(s, t) ==
    /\ last' = [op |-> "cmp", ty |-> "Vector", self |-> s, arg |-> t,
                out |-> Vector_cmp(vecs[s], vecs[t])]
    /\ UNCHANGED <<frames, vecs>>

VectorPartialCmp(s, t) ==
    /\ last' = [op |-> "partial_cmp", ty |-> "Vector", self |-> s, arg |-> t,
                out |-> Vector_partial_cmp(vecs[s], vecs[t])]
    /\ UNCHANGED <<frames, vecs>>

NextVecOrd ==
    \/ \E s, t \in Slots : VectorCmp(s, t)
    \/ \E s, t \in Slots : VectorPartialCmp(s, t)

SpecVecOrd == InitVecOrd /\ [][NextVecOrd]_vars

(***************************************************************************)
(* Equality and inequality of two held PoleVec values (Basics.rs).         *)
(***************************************************************************)
NeIn ==
    {PoleVec_new(r, phi, theta) :
        r \in {0, 1, 2, -1}, phi \in {Deg(1), Deg(20)}, theta \in {Deg(1), Deg(90)}}

InitNe ==
    /\ frames = <<>>
    /\ last = NoCall
    /\ \E a \in NeIn, b \in NeIn :
          vecs = [s \in Slots |-> IF s = "a" THEN a ELSE IF s = "b" THEN b
                                  ELSE PoleVec_new(0, 0, 0)]

PoleVecEq(s, t) ==
    /\ last' = [op |-> "eq", ty |-> "PoleVec", self |-> s, arg |-> t,
                out |-> PoleVec_eq(vecs[s], vecs[t])]
    /\ UNCHANGED <<frames, vecs>>

PoleVecNe(s, t) ==
    /\ last' = [op |-> "ne", ty |-> "PoleVec", self |-> s, arg |-> t,
                out |-> PoleVec_ne(vecs[s], vecs[t])]
    /\ UNCHANGED <<frames, vecs>>

NextNe ==
    \/ \E s, t \in {"a", "b"} : PoleVecEq(s, t)
    \/ \E s, t \in {"a", "b"} : PoleVecNe(s, t)

SpecNe == InitNe /\ [][NextNe]_vars

(***************************************************************************)
(* Properties of the frame hierarchy, checked under Spec.                  *)
(***************************************************************************)
\* The component-wise sum of the origins of f and of its ancestors below the root.
RECURSIVE ChainOriginSum(_)
ChainOriginSum(f) ==
    IF frames[f].kind = "World"
    THEN Vector_new(0, 0, 0)
    ELSE Vector_add(frames[f].origin, ChainOriginSum(frames[f].parent))

Transformed(ty) == last.op = "transform" /\ last.ty = ty

\* C1: a GeneralCoordSystem at any depth resolves a vector to the vector plus
\* the origins of the frame and of every ancestor below the root.
C1_ResolvesThroughEveryAncestor ==
    Transformed("GeneralCoordSystem") =>
        last.out = Vector_add(last.arg, ChainOriginSum(last.self))

\* C2: both WorldCoordSystem impls return the vector they are given.
C2_RootFixedPoint ==
    (Transformed("WorldCoordSystem") \/ Transformed("&WorldCoordSystem")) =>
        last.out = last.arg

C2_Witness ==
    /\ Transformed("&WorldCoordSystem")
    /\ last.arg = Vector_new(0, 0, 2)
    /\ last.out = Vector_new(0, 0, 2)
    /\ \E f \in 1..Len(frames) : frames[f].kind = "General"

\* C3: a frame whose parent is the WorldCoordSystem resolves v to v + origin.
C3_TwoLevelResolution ==
    (Transformed("GeneralCoordSystem") /\ frames[frames[last.self].parent].kind = "World") =>
        last.out = Vector_add(last.arg, frames[last.self].origin)

C3_Witness ==
    /\ Transformed("GeneralCoordSystem")
    /\ frames[frames[last.self].parent].kind = "World"
    /\ frames[last.self].origin = Vector_new(10, 0, 0)
    /\ last.arg = Vector_new(1, 0, 0)
    /\ last.out = Vector_new(11, 0, 0)

(***************************************************************************)
(* Properties of the canonicalisation, checked under SpecPolar.            *)
(***************************************************************************)
Built(ty) == last.op = "new" /\ last.ty = ty

\* C4: every vector new returns has r >= 0, phi in [0, 360) and theta in [0, 180)
\* (degrees lineage of polar_vector.rs; [0, TAU) and [0, PI) in vectors.rs).
C4_CanonicalRange ==
    /\ Built("PolarVec") =>
          /\ last.out.r >= 0
          /\ 0 <= last.out.phi /\ last.out.phi < DEG_360
          /\ 0 <= last.out.theta /\ last.out.theta < DEG_180
    /\ Built("RadPolarVec") =>
          /\ last.out.r >= 0
          /\ 0 <= last.out.phi /\ last.out.phi < TAU
          /\ 0 <= last.out.theta /\ last.out.theta < PI

\* C5: for r > 0, new(-r, phi, theta) == new(r, phi + 180, 180 - theta).
C5_NegativeRadiusReflection ==
    (Built("PolarVec") /\ last.arg[1] < 0) =>
        PolarVec_eq(last.out,
                    PolarVec_new(0 - last.arg[1], last.arg[2] + DEG_180, DEG_180 - last.arg[3]))

\* C6: new(r, phi, 0) and new(r, phi, 180) have phi = 0, whatever r and phi.
C6_PoleCollapse ==
    (Built("PolarVec") /\ last.arg[3] \in {0, DEG_180}) => last.out.phi = 0

\* C7: new(r, phi + 360 k, theta + 180 m) == new(r, phi, theta) for all integers
\* k and m, and angles are wrapped by the Euclidean remainder, so that negative
\* angles land in range.
C7_AngleWrapInvariance ==
    Built("PolarVec") =>
        /\ \A k \in Turns, m \in Turns :
              PolarVec_eq(PolarVec_new(last.arg[1], last.arg[2] + k * DEG_360,
                                       last.arg[3] + m * DEG_180),
                          last.out)
        /\ last.arg[1] > 0 =>
              /\ last.out.theta = last.arg[3] % DEG_180
              /\ last.out.theta # 0 => last.out.phi = last.arg[2] % DEG_360

C7_Witness ==
    /\ Built("PolarVec")
    /\ last.arg = <<5, (Deg(717) \div 2) - DEG_360, Deg(1)>>
    /\ last.arg[2] < 0
    /\ last.out = [ty |-> "PolarVec", r |-> 5, phi |-> Deg(717) \div 2, theta |-> Deg(1)]

\* C8: in every lineage new(0, phi, theta) stores exactly (0, 0, 0) and equals
\* new(0, 0, 0).
C8_ZeroCollapse ==
    (last.op = "new" /\ last.arg[1] = 0) =>
        /\ last.out.r = 0 /\ last.out.phi = 0 /\ last.out.theta = 0
        /\ Built("PolarVec") => PolarVec_eq(last.out, PolarVec_new(0, 0, 0))
        /\ Built("PoleVec") => PoleVec_eq(last.out, PoleVec_new(0, 0, 0))
        /\ Built("RadPolarVec") => RadPolarVec_eq(last.out, RadPolarVec_new(0, 0, 0))

C8_Witness ==
    /\ Built("PolarVec")
    /\ last.arg = <<0, Deg(1), Deg(1)>>
    /\ last.out = [ty |-> "PolarVec", r |-> 0, phi |-> 0, theta |-> 0]

(***************************************************************************)
(* Properties of the ordering, checked under SpecOrd.                      *)
(***************************************************************************)
\* Lexicographic comparison of the keys (phi, theta, r).
LexPhiThetaR(a, b) ==
    IF a.phi < b.phi THEN "Less"
    ELSE IF a.phi > b.phi THEN "Greater"
    ELSE IF a.theta < b.theta THEN "Less"
    ELSE IF a.theta > b.theta THEN "Greater"
    ELSE IF a.r < b.r THEN "Less"
    ELSE IF a.r > b.r THEN "Greater"
    ELSE "Equal"

Reverse(o) == IF o = "Less" THEN "Greater" ELSE IF o = "Greater" THEN "Less" ELSE "Equal"

Exact(ty) == ty \in {"PolarVec", "PoleVec"}

\* C9: in the exact-equality lineages cmp is the lexicographic comparison of
\* (phi, theta, r), Equal only for equal components, and partial_cmp is Some(cmp).
C9_PolarOrderingKey ==
    /\ (last.op = "cmp" /\ Exact(last.ty)) =>
          /\ last.out = LexPhiThetaR(vecs[last.self], vecs[last.arg])
          /\ last.out = "Equal" <=>
                /\ vecs[last.self].r = vecs[last.arg].r
                /\ vecs[last.self].phi = vecs[last.arg].phi
                /\ vecs[last.self].theta = vecs[last.arg].theta
    /\ (last.op = "partial_cmp" /\ Exact(last.ty)) =>
          /\ last.out[1] = "Some"
          /\ last.out[2] = LexPhiThetaR(vecs[last.self], vecs[last.arg])
          /\ last.ty = "PolarVec" => last.out[2] = PolarVec_cmp(vecs[last.self], vecs[last.arg])
          /\ last.ty = "PoleVec" => last.out[2] = PoleVec_cmp(vecs[last.self], vecs[last.arg])

\* Azimuth decides before radius: the smaller phi is Less although its r is larger.
C9_Witness ==
    /\ last.op = "cmp" /\ last.ty = "PolarVec"
    /\ vecs[last.self].phi < vecs[last.arg].phi
    /\ vecs[last.self].r > vecs[last.arg].r
    /\ last.out = "Less"

\* C10: with the tolerant equality of vectors.rs, cmp is a total order:
\* cmp(a, b) is the reverse of cmp(b, a), < is transitive and == is transitive.
C10_TolerantTotalOrder ==
    (\A s \in Slots : vecs[s].ty = "RadPolarVec") =>
        LET a == vecs["a"]
            b == vecs["b"]
            c == vecs["c"]
        IN  /\ RadPolarVec_cmp(a, b) = Reverse(RadPolarVec_cmp(b, a))
            /\ (RadPolarVec_cmp(a, b) = "Less" /\ RadPolarVec_cmp(b, c) = "Less")
                  => RadPolarVec_cmp(a, c) = "Less"
            /\ (RadPolarVec_eq(a, b) /\ RadPolarVec_eq(b, c)) => RadPolarVec_eq(a, c)

(***************************************************************************)
(* Properties of the vector points, checked under SpecPoint.               *)
(***************************************************************************)
\* The value of a frame: its id, its origin and, below the root, the value of
\* its parent.
RECURSIVE FrameValue(_)
FrameValue(f) ==
    IF frames[f].kind = "World"
    THEN <<frames[f].id, frames[f].origin>>
    ELSE <<frames[f].id, frames[f].origin, FrameValue(frames[f].parent)>>

\* C11: two VectorPoints (two PolarVectorPoints) over the same frame type are
\* equal exactly when their frames are equal by value and their vectors are equal.
C11_PointEqualityComposesBothFields ==
    /\ (last.op = "eq" /\ last.ty = "VectorPoint") =>
          (last.out <=> /\ FrameValue(last.self.cord_sys) = FrameValue(last.arg.cord_sys)
                        /\ last.self.vector = last.arg.vector)
    /\ (last.op = "eq" /\ last.ty = "PolarVectorPoint") =>
          (last.out <=> /\ FrameValue(last.self.cord_sys) = FrameValue(last.arg.cord_sys)
                        /\ RadPolarVec_eq(last.self.vector, last.arg.vector))

\* Two distinct frames of equal value below distinct parents, equal vectors: equal.
C11_Witness ==
    /\ last.op = "eq" /\ last.ty = "VectorPoint"
    /\ last.self.cord_sys # last.arg.cord_sys
    /\ frames[last.self.cord_sys].kind = "General"
    /\ frames[last.self.cord_sys].parent # frames[last.arg.cord_sys].parent
    /\ last.self.vector = last.arg.vector
    /\ last.out = TRUE

(***************************************************************************)
(* Structure of the hierarchy, checked under Spec.                         *)
(***************************************************************************)
\* The frame reached from f by n or fewer get_parent_coord_system steps at
\* which the chain ends, None when it has not ended by then.
RECURSIVE ChainEnd(_, _)
ChainEnd(f, n) ==
    IF get_parent_coord_system(f) = None THEN f
    ELSE IF n = 0 THEN None
    ELSE ChainEnd(get_parent_coord_system(f), n - 1)

\* The frames reached from f by 1 to n get_parent_coord_system steps.
RECURSIVE AncestorsWithin(_, _)
AncestorsWithin(f, n) ==
    IF n = 0 \/ get_parent_coord_system(f) = None THEN {}
    ELSE {get_parent_coord_system(f)} \cup AncestorsWithin(get_parent_coord_system(f), n - 1)

\* C12: whatever has been constructed, the parent chain of every frame ends at
\* a WorldCoordSystem after finitely many steps, get_parent_coord_system is None
\* exactly for a WorldCoordSystem and the parent given to new for a
\* GeneralCoordSystem, and no frame is its own ancestor.
C12_RootedAcyclicHierarchy ==
    /\ \A f \in 1..Len(frames) :
          /\ ChainEnd(f, Len(frames)) # None
          /\ frames[ChainEnd(f, Len(frames))].kind = "World"
          /\ (get_parent_coord_system(f) = None) <=> (frames[f].kind = "World")
          /\ f \notin AncestorsWithin(f, Len(frames))
    /\ (last.op = "new" /\ last.ty = "GeneralCoordSystem") =>
          get_parent_coord_system(last.self) = last.arg

\* A frame three levels below the root has just been constructed.
C12_Witness ==
    /\ last.op = "new" /\ last.ty = "GeneralCoordSystem"
    /\ FrameType(last.self) = 3
    /\ frames[ChainEnd(last.self, 3)].kind = "World"

\* C13 as stated: every WorldCoordSystem::new() has the id "world".
C13_RootIdIsWorld ==
    (last.op = "new" /\ last.ty = "WorldCoordSystem") => get_id(last.self) = "world"

\* C13, amended: every WorldCoordSystem::new() has the id "wcs".
C13_RootIdIsWcs ==
    /\ (last.op = "new" /\ last.ty = "WorldCoordSystem") => get_id(last.self) = "wcs"
    /\ \A f \in 1..Len(frames) : frames[f].kind = "World" => get_id(f) = "wcs"

\* A second root has just been constructed, after a general frame.
C13_Witness ==
    /\ last.op = "new" /\ last.ty = "WorldCoordSystem"
    /\ last.self = 3
    /\ frames[2].kind = "General"
    /\ get_id(last.self) = "wcs"

(***************************************************************************)
(* Angle differences, checked under SpecDiff.                              *)
(***************************************************************************)
\* C14: get_angle_difference_phi and _theta are the raw differences
\* other.angle - self.angle, without wraparound correction (the phi difference
\* lies in (-360, 360)), and swapping the two vectors negates them.
C14_RawAngleDifference ==
    /\ last.op = "get_angle_difference_phi" =>
          /\ last.out = vecs[last.arg].phi - vecs[last.self].phi
          /\ 0 - DEG_360 < last.out /\ last.out < DEG_360
          /\ last.out = 0 - PolarVec_get_angle_difference_phi(vecs[last.arg], vecs[last.self])
    /\ last.op = "get_angle_difference_theta" =>
          /\ last.out = vecs[last.arg].theta - vecs[last.self].theta
          /\ last.out = 0 - PolarVec_get_angle_difference_theta(vecs[last.arg], vecs[last.self])

\* From phi = 20 to phi = 350 the difference is 330, not the shortest arc -30.
C14_Witness ==
    /\ last.op = "get_angle_difference_phi"
    /\ vecs[last.self].phi = Deg(20) /\ vecs[last.arg].phi = Deg(350)
    /\ last.out = Deg(330)

(***************************************************************************)
(* Properties of the conversions, checked under SpecConv.                  *)
(***************************************************************************)
\* Equality of two cartesian vectors within a tolerance below the metre grid.
VectorApprox(v, w) ==
    /\ v.x # NaN /\ v.y # NaN /\ v.z # NaN
    /\ v.x = w.x /\ v.y = w.y /\ v.z = w.z

\* C15: a Vector converted to polar and back equals the Vector within
\* tolerance, and a canonical PolarVec converted to cartesian and back equals
\* the PolarVec within tolerance.
C15_RoundTrip ==
    /\ (last.op = "to_vector" /\ last.arg[1] = "Vector") =>
          VectorApprox(last.out, last.arg[2])
    /\ (last.op = "to_polar_vector" /\ last.arg[1] = "RadPolarVec") =>
          RadPolarVec_eq(last.out, last.arg[2])

\* The canonical range of a PolarVec of vectors.rs, both ends of theta allowed.
InCanonicalRange(p) ==
    /\ p.r # NaN /\ p.phi # NaN /\ p.theta # NaN
    /\ p.r >= 0
    /\ 0 <= p.phi /\ p.phi < TAU
    /\ 0 <= p.theta /\ p.theta <= PI

\* C16: to_polar_vector returns a PolarVec in canonical form for every Vector,
\* and the world origin for the zero vector.
C16_ConversionIsCanonical ==
    (last.op = "to_polar_vector" /\ last.arg[1] = "Vector") =>
        /\ InCanonicalRange(last.out)
        /\ last.self = Vector_get_world_origin => last.out = RadPolarVec_get_world_origin

(***************************************************************************)
(* Ordering of cartesian vectors, checked under SpecVecOrd.                *)
(***************************************************************************)
LexXYZ(a, b) ==
    LET key(v) == <<v.x, v.y, v.z>>
        d == {i \in 1..3 : key(a)[i] # key(b)[i]}
    IN  IF d = {} THEN "Equal"
        ELSE LET i == CHOOSE j \in d : \A k \in d : j <= k
             IN  IF key(a)[i] < key(b)[i] THEN "Less" ELSE "Greater"

\* C17: Vector::cmp is the lexicographic comparison of (x, y, z), is Equal
\* exactly when the three components are equal, and partial_cmp is Some of it.
C17_CartesianOrder ==
    /\ (last.op = "cmp" /\ last.ty = "Vector") =>
          /\ last.out = LexXYZ(vecs[last.self], vecs[last.arg])
          /\ last.out = "Equal" <=> vecs[last.self] = vecs[last.arg]
          /\ Vector_partial_cmp(vecs[last.self], vecs[last.arg]) = <<"Some", last.out>>
    /\ (last.op = "partial_cmp" /\ last.ty = "Vector") =>
          last.out = <<"Some", Vector_cmp(vecs[last.self], vecs[last.arg])>>

\* Two vectors that differ in y only, compared in the descending direction.
C17_Witness ==
    /\ last.op = "cmp" /\ last.ty = "Vector"
    /\ vecs[last.self].x = vecs[last.arg].x
    /\ vecs[last.self].y > vecs[last.arg].y
    /\ vecs[last.self].z < vecs[last.arg].z
    /\ last.out = "Greater"

(***************************************************************************)
(* Termination of the resolution, checked under Spec.                      *)
(***************************************************************************)
\* The number of parent links between the frame f and the root.
RECURSIVE DistanceFromRoot(_)
DistanceFromRoot(f) ==
    IF frames[f].kind = "World" THEN 0 ELSE 1 + DistanceFromRoot(frames[f].parent)

\* C18: transform_vector_into_world_coords of a frame at distance d from the
\* root returns a vector after at most d + 1 invocations.
C18_ResolutionTerminates ==
    /\ Transformed("GeneralCoordSystem") =>
          /\ last.out \in [x : Int, y : Int, z : Int]
          /\ GeneralCoordSystem_transform_invocations(last.self)
                <= DistanceFromRoot(last.self) + 1
    /\ (Transformed("WorldCoordSystem") \/ Transformed("&WorldCoordSystem")) =>
          /\ last.out \in [x : Int, y : Int, z : Int]
          /\ DistanceFromRoot(last.self) = 0

C18_Witness ==
    /\ Transformed("GeneralCoordSystem")
    /\ DistanceFromRoot(last.self) = MaxFrames - 1
    /\ GeneralCoordSystem_transform_invocations(last.self) > 1

(***************************************************************************)
(* Further properties of the canonicalisation, checked under SpecPolar.    *)
(***************************************************************************)
Triple(p) == <<p.r, p.phi, p.theta>>

\* C19: new applied to the components of a vector new returned gives the same
\* components again, and new(1, 1, 1) stores (1, 1, 1).
C19_CanonicalisationIdempotent ==
    Built("PolarVec") =>
        /\ Triple(PolarVec_new(last.out.r, last.out.phi, last.out.theta)) = Triple(last.out)
        /\ last.arg = <<1, Deg(1), Deg(1)>> => Triple(last.out) = <<1, Deg(1), Deg(1)>>

\* C20: PoleVec::new of Basics.rs and PolarVec::new of polar_vector.rs return
\* the same triple for the same input.
C20_LineageEquivalence ==
    /\ Built("PoleVec") =>
          Triple(last.out) = PolarVec_get_uni_coords(last.arg[1], last.arg[2], last.arg[3])
    /\ Built("PolarVec") =>
          Triple(last.out) = PoleVec_get_uni_coords(last.arg[1], last.arg[2], last.arg[3])

(***************************************************************************)
(* Equality of PoleVec, checked under SpecNe.                              *)
(***************************************************************************)
\* C21: for PoleVec, a.ne(b) is the negation of a.eq(b); a.ne(a) is false, and
\* so is ne of two vectors built from the same inputs.
C21_NeNegatesEq ==
    /\ (last.op = "ne" /\ last.ty = "PoleVec") =>
          /\ last.out = ~PoleVec_eq(vecs[last.self], vecs[last.arg])
          /\ last.self = last.arg => last.out = FALSE
          /\ vecs[last.self] = vecs[last.arg] => last.out = FALSE
    /\ (last.op = "eq" /\ last.ty = "PoleVec") =>
          last.out = ~PoleVec_ne(vecs[last.self], vecs[last.arg])

====
